---- MODULE Spec2Model ----
(***************************************************************************)
(* AutoCoder Dashboard: the App component of src/App.jsx as a state        *)
(* machine.  The component state (useState cells), the two localStorage    *)
(* keys, the host page's configuration globals, the wall clock and the     *)
(* POST requests in flight are the variables; every event handler, effect  *)
(* and promise continuation of the component is one action.                *)
(*                                                                         *)
(* Handlers are modelled at the level of the functions React calls: the    *)
(* onSubmit handler submitFeature has no guard of its own (the `disabled`  *)
(* and `required` attributes only gate the browser's own submit button and *)
(* validation, not a submit event that reaches the handler), so it may run *)
(* while another request is outstanding.                                   *)
(*                                                                         *)
(* Effects run once per commit, in declaration order, as React runs them   *)
(* in a production build; a state update queued by an effect is applied by *)
(* the re-render React schedules right after (MountRerender).              *)
(*                                                                         *)
(* Left out, as they change none of the state below: apiToken (it only     *)
(* adds a request header), downloadResult, the clipboard copy and the      *)
(* health ping.  localStorage holds only what the component wrote, so the  *)
(* catch blocks around its reads and writes are never entered.             *)
(***************************************************************************)
EXTENDS Integers, Sequences, FiniteSets, TLC

VARIABLES
    hostGlobal,     \* window.__APP_API_BASE of the host page
    envBase,        \* globalThis.process.env.VITE_API_BASE
    ls_api_base,    \* localStorage item 'ac_api_base'
    ls_jobs,        \* localStorage item 'ac_jobs'
    pc,             \* "unmounted" | "mounting" (load effect's update queued) | "ready"
    pendingJobs,    \* the list the load effect handed to setJobs, not yet rendered
    apiBase, apiBaseInput, title, description, loading, response, error, jobs,
    inflight,       \* POSTs issued and not yet settled: the title each call closed over
    now,            \* the reading of Date.now()
    nsub,           \* history: submissions issued so far
    snapshot,       \* history: the in-memory job list at the last page (re)load
    evicted         \* history: some completion truncated a full list

vars == <<hostGlobal, envBase, ls_api_base, ls_jobs, pc, pendingJobs,
          apiBase, apiBaseInput, title, description, loading, response, error,
          jobs, inflight, now, nsub, snapshot, evicted>>

compState == <<apiBase, apiBaseInput, title, description, loading, response, error, jobs>>
storage   == <<ls_api_base, ls_jobs>>
hostEnv   == <<hostGlobal, envBase>>
history   == <<nsub, snapshot, evicted>>

----------------------------------------------------------------------------
(* Bounds of the model *)

MaxSubmits  == 2    \* submissions per behaviour of Spec
MaxInFlight == 2    \* requests outstanding at once
MaxNow      == 1    \* clock readings 0..MaxNow

(* Program constant: slice(0, 30) *)
MAX_JOBS == 30

----------------------------------------------------------------------------
(* JavaScript values.  Every display payload is a tagged value.            *)

Null            == [t |-> "null",   v |-> ""]
JsonValue(text) == [t |-> "json",   v |-> text]    \* the value JSON.parse(text) yields
TextObject(raw) == [t |-> "text",   v |-> raw]     \* the object { text: raw }
StringOf(err)   == [t |-> "string", v |-> err]     \* String(err)

(* A localStorage item / an optional global: absent (getItem gives null,   *)
(* the global is undefined) or a string.                                   *)
NoItem      == [set |-> FALSE, value |-> ""]
Item(s)     == [set |-> TRUE,  value |-> s]

(* The same for 'ac_jobs', whose text is a serialised array (never '').    *)
NoJobsItem  == [set |-> FALSE, value |-> <<>>]

(* JavaScript truthiness of an optional string: null, undefined and ''     *)
(* are falsy.                                                              *)
Truthy(item) == item.set /\ item.value # ""

----------------------------------------------------------------------------
(* Pure functions of the module *)

(* getDefaultApiBase: host global, else injected environment value, else   *)
(* the literal.  Both lookups test truthiness.                             *)
getDefaultApiBase(host, env) ==
    IF Truthy(host) THEN host.value
    ELSE IF Truthy(env) THEN env.value
    ELSE "http://localhost:9000"

DEFAULT_API_BASE == getDefaultApiBase(hostGlobal, envBase)

(* useState initialiser of apiBase: localStorage.getItem(..) || DEFAULT    *)
initialApiBase(stored, dflt) ==
    IF Truthy(stored) THEN stored.value ELSE dflt

(* new Date().toISOString() of a clock reading *)
toISOString(t) == <<"1970-01-01T00:00:00.", t, "Z">>

(* JSON.stringify(jobs): the text is modelled as the array of the jobs'    *)
(* members in property order; JSON.parse rebuilds the objects.             *)
stringifyJobs(list) ==
    [i \in 1..Len(list) |->
        <<list[i].id, list[i].title, list[i].created_at, list[i].result>>]

parseJobs(text) ==
    [i \in 1..Len(text) |->
        [id |-> text[i][1], title |-> text[i][2],
         created_at |-> text[i][3], result |-> text[i][4]]]

(* Response bodies: which texts JSON.parse accepts *)
ValidJsonTexts   == {"{\"code\":\"...\"}", "{\"error\":\"bad input\"}"}
isValidJson(raw) == raw \in ValidJsonTexts

(* contentType.includes('application/json'); a missing header reads ''     *)
JsonContentTypes == {"application/json", "application/json; charset=utf-8"}
includesJson(ct) == ct \in JsonContentTypes

(* res.ok *)
isOk(status) == status >= 200 /\ status <= 299

(* Lines 119-130: the body as parsed, and whether parsing throws.          *)
(* With a JSON content type res.json() throws on a malformed body; without *)
(* one, JSON.parse is tried and the raw text is wrapped when it throws.    *)
parseThrows(res) == includesJson(res.ctype) /\ ~isValidJson(res.body)

(* Mutant of parsedBody: the fallback keeps the raw text, unwrapped *)
parsedBody_RawText(res) ==
    IF isValidJson(res.body) THEN JsonValue(res.body) ELSE StringOf(res.body)

parsedBody(res) ==
    IF isValidJson(res.body) THEN JsonValue(res.body) ELSE TextObject(res.body)

(* Mutant of prependJob: slice(-30), which keeps the newest at the head    *)
(* but, once the list is full, drops the entry just added.                 *)
prependJob_SliceFromEnd(job, prev) ==
    LET all == <<job>> \o prev
    IN  SubSeq(all, IF Len(all) < MAX_JOBS THEN 1 ELSE Len(all) - MAX_JOBS + 1, Len(all))

(* [job, ...prev].slice(0, 30) *)
prependJob(job, prev) ==
    LET all == <<job>> \o prev
    IN  SubSeq(all, 1, IF Len(all) < MAX_JOBS THEN Len(all) ELSE MAX_JOBS)

(* The job object of line 135 *)
newJob(t, ttl, data) ==
    [id |-> t, title |-> ttl, created_at |-> toISOString(t), result |-> data]

(* drop element i of a sequence *)
removeAt(seq, i) == SubSeq(seq, 1, i - 1) \o SubSeq(seq, i + 1, Len(seq))

----------------------------------------------------------------------------
(* Initial state: the page before the component first mounts, with empty   *)
(* storage.  The host page's globals are fixed for a behaviour.            *)

InitWith(hosts, envs) ==
    /\ hostGlobal \in hosts
    /\ envBase \in envs
    /\ ls_api_base = NoItem
    /\ ls_jobs = NoJobsItem
    /\ pc = "unmounted"
    /\ pendingJobs = <<>>
    /\ apiBase = "" /\ apiBaseInput = ""
    /\ title = "" /\ description = ""
    /\ loading = FALSE
    /\ response = Null /\ error = Null
    /\ jobs = <<>>
    /\ inflight = <<>>
    /\ now = 0
    /\ nsub = 0 /\ snapshot = <<>> /\ evicted = FALSE

----------------------------------------------------------------------------
(* Actions *)

(* Page load: module evaluation (DEFAULT_API_BASE), the useState           *)
(* initialisers, then the three mount effects in order: load, persist      *)
(* jobs (the closure's jobs is the initial []), persist apiBase.  Requests *)
(* of the previous page die with it.                                       *)
(* Mutant of savedJobs: the load effect declared after the persist effect, *)
(* so that it reads what the mount-time persist has just written.          *)
savedJobs_AfterPersist == [set |-> TRUE, value |-> <<>>]

(* const saved = localStorage.getItem('ac_jobs'), read by the load effect  *)
(* before the persist effect of the same commit writes.                    *)
savedJobs == ls_jobs

Mount ==
    /\ pc \in {"unmounted", "ready"}
    /\ LET base  == initialApiBase(ls_api_base, DEFAULT_API_BASE)
           saved == savedJobs
       IN  /\ apiBase' = base
           /\ apiBaseInput' = base
           /\ title' = "" /\ description' = ""
           /\ loading' = FALSE
           /\ response' = Null /\ error' = Null
           /\ jobs' = <<>>
           /\ IF saved.set    \* if (saved): the text of an array is never ''
                 THEN pendingJobs' = parseJobs(saved.value) /\ pc' = "mounting"
                 ELSE pendingJobs' = <<>> /\ pc' = "ready"
           /\ ls_jobs' = Item(stringifyJobs(<<>>))
           /\ ls_api_base' = Item(base)
    /\ inflight' = <<>>
    /\ UNCHANGED <<hostEnv, now>>

(* The re-render after the load effect's setJobs(saved): jobs changed, so  *)
(* the persist effect runs again.                                          *)
MountRerender ==
    /\ pc = "mounting"
    /\ jobs' = pendingJobs
    /\ ls_jobs' = Item(stringifyJobs(pendingJobs))
    /\ pendingJobs' = <<>>
    /\ pc' = "ready"
    /\ UNCHANGED <<hostEnv, ls_api_base, apiBase, apiBaseInput, title, description,
                   loading, response, error, inflight, now>>

(* onChange of the three inputs *)
setTitle(t) ==
    /\ pc = "ready"
    /\ title' = t
    /\ UNCHANGED <<hostEnv, storage, pc, pendingJobs, apiBase, apiBaseInput,
                   description, loading, response, error, jobs, inflight, now>>

setDescription(d) ==
    /\ pc = "ready"
    /\ description' = d
    /\ UNCHANGED <<hostEnv, storage, pc, pendingJobs, apiBase, apiBaseInput,
                   title, loading, response, error, jobs, inflight, now>>

setApiBaseInput(u) ==
    /\ pc = "ready"
    /\ apiBaseInput' = u
    /\ UNCHANGED <<hostEnv, storage, pc, pendingJobs, apiBase,
                   title, description, loading, response, error, jobs, inflight, now>>

(* The Set button, with the apiBase persist effect *)
SetApiBase ==
    /\ pc = "ready"
    /\ apiBase' = apiBaseInput
    /\ ls_api_base' = Item(apiBaseInput)
    /\ UNCHANGED <<hostEnv, ls_jobs, pc, pendingJobs, apiBaseInput,
                   title, description, loading, response, error, jobs, inflight, now>>

(* submitFeature up to the await of fetch (lines 101-117) *)
submitFeature ==
    /\ pc = "ready"
    /\ loading' = TRUE
    /\ response' = Null
    /\ error' = Null
    /\ inflight' = Append(inflight, title)
    /\ UNCHANGED <<hostEnv, storage, pc, pendingJobs, apiBase, apiBaseInput,
                   title, description, jobs, now>>

(* Mutant of setErrorOnly: the failure path also resets the form *)
setErrorOnly_ClearsForm(payload) ==
    /\ error' = payload
    /\ title' = "" /\ description' = ""
    /\ UNCHANGED <<response, jobs, ls_jobs>>

(* The failure paths, setError(data) and setError(String(err)): nothing    *)
(* else is set.                                                            *)
setErrorOnly(payload) ==
    /\ error' = payload
    /\ UNCHANGED <<response, jobs, ls_jobs, title, description>>

(* Mutant of resetLoading: setLoading(false) at the end of the try block   *)
(* instead of in finally, so a thrown error leaves the flag set.           *)
resetLoading_NotOnThrow(threw) ==
    IF threw THEN UNCHANGED loading ELSE loading' = FALSE

(* finally { setLoading(false) } *)
resetLoading(threw) == loading' = FALSE

(* submitFeature from the settling of fetch to the end (lines 113-145),    *)
(* for request i and the outcome res of the network call.  The title is    *)
(* the one the call closed over; the functional update of setJobs sees the *)
(* current list; the persist effect follows the change of jobs.            *)
settleFeature(i, res) ==
    /\ pc = "ready"
    /\ i \in 1..Len(inflight)
    /\ inflight' = removeAt(inflight, i)
    /\ resetLoading(res.thrown \/ parseThrows(res))
    /\ IF res.thrown
          THEN setErrorOnly(StringOf("TypeError: Failed to fetch"))
       ELSE IF parseThrows(res)
          THEN setErrorOnly(StringOf("SyntaxError: Unexpected token"))
       ELSE IF ~isOk(res.status)
          THEN setErrorOnly(parsedBody(res))
       ELSE /\ jobs' = prependJob(newJob(now, inflight[i], parsedBody(res)), jobs)
            /\ ls_jobs' = Item(stringifyJobs(jobs'))
            /\ response' = parsedBody(res)
            /\ title' = ""
            /\ description' = ""
            /\ UNCHANGED error
    /\ UNCHANGED <<hostEnv, ls_api_base, pc, pendingJobs, apiBase, apiBaseInput, now>>

(* The View button of history entry k *)
viewJob(k) ==
    /\ pc = "ready"
    /\ k \in 1..Len(jobs)
    /\ response' = jobs[k].result
    /\ UNCHANGED <<hostEnv, storage, pc, pendingJobs, apiBase, apiBaseInput,
                   title, description, loading, error, jobs, inflight, now>>

(* The Clear button *)
clearForm ==
    /\ pc = "ready"
    /\ title' = "" /\ description' = ""
    /\ response' = Null /\ error' = Null
    /\ UNCHANGED <<hostEnv, storage, pc, pendingJobs, apiBase, apiBaseInput,
                   loading, jobs, inflight, now>>

(* The wall clock advances *)
Tick ==
    /\ now < MaxNow
    /\ now' = now + 1
    /\ UNCHANGED <<hostEnv, storage, pc, pendingJobs, compState, inflight>>

----------------------------------------------------------------------------
(* Inputs *)

Titles       == {"", "Add palindrome checker"}
Descriptions == {"", "..."}
ApiInputs    == {"", "http://backend:9000", "http://backend:9000/"}
ApiInputsOne == {"http://backend:9000"}
HostValues   == {NoItem, Item(""), Item("http://host:9000")}
EnvValues    == {NoItem, Item(""), Item("http://env:9000")}

NetworkError == [thrown |-> TRUE, status |-> 0, ctype |-> "", body |-> ""]

HttpResponses(statuses, ctypes, bodies) ==
    [thrown : {FALSE}, status : statuses, ctype : ctypes, body : bodies]

Responses ==
    {NetworkError} \cup
    HttpResponses({200, 500}, {"application/json", "text/html"},
                  {"{\"code\":\"...\"}", "<html>Bad Gateway</html>"})

(* The outcomes of the capacity specification: a failure, and a success    *)
(* with one body                                                           *)
ResponsesCap ==
    {NetworkError} \cup
    HttpResponses({200}, {"application/json"}, {"{\"code\":\"...\"}"})

----------------------------------------------------------------------------
(* History variables, updated beside the actions they observe *)

HistMount  == snapshot' = jobs /\ UNCHANGED <<nsub, evicted>>
HistSubmit == nsub' = nsub + 1 /\ UNCHANGED <<snapshot, evicted>>
HistSettle ==
    /\ evicted' = (evicted \/ (Len(jobs) = MAX_JOBS /\ jobs' # jobs))
    /\ UNCHANGED <<nsub, snapshot>>

----------------------------------------------------------------------------
(* Spec: the whole component, a bounded number of submissions *)

Init == InitWith({NoItem}, {NoItem})

Next ==
    \/ Mount /\ HistMount
    \/ MountRerender /\ UNCHANGED history
    \/ \E t \in Titles : setTitle(t) /\ UNCHANGED history
    \/ \E d \in Descriptions : setDescription(d) /\ UNCHANGED history
    \/ nsub < MaxSubmits /\ Len(inflight) < MaxInFlight /\ submitFeature /\ HistSubmit
    \/ \E i \in 1..Len(inflight), res \in Responses :
           settleFeature(i, res) /\ HistSettle
    \/ \E k \in 1..Len(jobs) : viewJob(k) /\ UNCHANGED history
    \/ clearForm /\ UNCHANGED history
    \/ \E u \in ApiInputsOne : setApiBaseInput(u) /\ UNCHANGED history
    \/ SetApiBase /\ UNCHANGED history
    \/ Tick /\ UNCHANGED history

Spec == Init /\ [][Next]_vars

(* SpecCap: the job list up to and beyond its capacity; one title, one     *)
(* response body (so every entry's result is the same and View of the      *)
(* first and of the last entry stand for all), no bound on the number of   *)
(* submissions.  The base URL is left alone here: SetApiBase and            *)
(* setApiBaseInput keep jobs and ls_jobs unchanged and run beside the job  *)
(* list in Spec.                                                           *)
NextCap ==
    \/ Mount /\ UNCHANGED history
    \/ MountRerender /\ UNCHANGED history
    \/ Len(inflight) < MaxInFlight /\ submitFeature /\ UNCHANGED history
    \/ \E i \in 1..Len(inflight), res \in ResponsesCap :
           settleFeature(i, res) /\ HistSettle
    \/ \E k \in {1, Len(jobs)} : viewJob(k) /\ UNCHANGED history
    \/ clearForm /\ UNCHANGED history
    \/ Tick /\ UNCHANGED history

SpecCap == Init /\ [][NextCap]_vars

(* SpecConfig: the base URL, under every host configuration *)
InitConfig == InitWith(HostValues, EnvValues)

NextConfig ==
    \/ Mount /\ HistMount
    \/ MountRerender /\ UNCHANGED history
    \/ \E u \in ApiInputs : setApiBaseInput(u) /\ UNCHANGED history
    \/ SetApiBase /\ UNCHANGED history

SpecConfig == InitConfig /\ [][NextConfig]_vars

----------------------------------------------------------------------------
(* Properties *)

MostRecentFirst(list) ==
    \A i \in 1..(Len(list) - 1) : list[i].id >= list[i + 1].id

(* A step that completes a page load *)
LoadCompletes == pc # "ready" /\ pc' = "ready"

(* A failed outcome: the network call throws, or the status is not 2xx *)
isFailure(res) == res.thrown \/ ~isOk(res.status)

(* The list after a job is put at the head of prev: the job, then prev     *)
(* less, when prev was full, its last (oldest) entry.                      *)
HeadInserted(after, prev) ==
    /\ Len(after) >= 1
    /\ after[1].id = now
    /\ Tail(after) = SubSeq(prev, 1, IF Len(prev) < MAX_JOBS THEN Len(prev)
                                                            ELSE MAX_JOBS - 1)

(* C1: the job list never holds more than 30 entries and is ordered        *)
(* most-recent-first; every successful completion puts its job, stamped    *)
(* with the current time, at the head and evicts the last entry of a full  *)
(* list; no other step of the running page changes the list.               *)
C1_CappedMostRecentFirst ==
    [][ /\ Len(jobs') <= MAX_JOBS
        /\ MostRecentFirst(jobs')
        /\ (pc = "ready" /\ pc' = "ready" /\ jobs' # jobs) => HeadInserted(jobs', jobs)
        /\ \A i \in 1..Len(inflight), res \in ResponsesCap :
              (~isFailure(res) /\ ~parseThrows(res) /\ settleFeature(i, res)) =>
                  HeadInserted(jobs', jobs)
      ]_vars

(* C1 witness: a full list from which an oldest entry has been evicted,    *)
(* holding jobs of different times.                                        *)
C1_Witness ==
    /\ evicted
    /\ Len(jobs) = MAX_JOBS
    /\ jobs[1].id > jobs[MAX_JOBS].id

(* C2: the completion of a failed submission (network error or non-2xx,    *)
(* whatever the body) leaves the job list, its stored copy, the title and  *)
(* the description as they were.                                           *)
C2_FailureKeepsJobsAndFields ==
    [][ \A i \in 1..Len(inflight), res \in Responses :
          (settleFeature(i, res) /\ isFailure(res)) =>
              /\ jobs' = jobs
              /\ ls_jobs' = ls_jobs
              /\ title' = title
              /\ description' = description
      ]_vars

(* C2 witness: a failed submission has completed (its payload is shown and *)
(* nothing is in flight) with a job in the list and both fields filled.    *)
C2_Witness ==
    /\ error # Null
    /\ inflight = <<>>
    /\ Len(jobs) >= 1
    /\ title # "" /\ description # ""

(* C3: whenever the page is ready the stored text is the serialised job    *)
(* list, and a page load ends with the in-memory list and the stored list  *)
(* both equal to the list held before the reload.                          *)
C3_RestartRoundTrip ==
    [][ /\ pc' = "ready" => ls_jobs' = Item(stringifyJobs(jobs'))
        /\ LoadCompletes =>
              /\ jobs' = snapshot'
              /\ ls_jobs'.set
              /\ parseJobs(ls_jobs'.value) = snapshot'
      ]_vars

(* C3 witness: a reload of a list of two different jobs has completed and  *)
(* the list is back.                                                       *)
C3_Witness ==
    /\ pc = "ready"
    /\ Len(snapshot) >= 2
    /\ snapshot[1] # snapshot[2]
    /\ jobs = snapshot
    /\ parseJobs(ls_jobs.value) = snapshot

(* C4: after a page load the base URL is the persisted value whenever one  *)
(* is stored, whatever string it is, and otherwise the default resolved    *)
(* from the host global, the environment value and the literal.            *)
C4_PersistedBaseWins ==
    [][ Mount =>
          apiBase' = IF ls_api_base.set THEN ls_api_base.value
                     ELSE getDefaultApiBase(hostGlobal, envBase)
      ]_vars

(* C5: every completion of a submission ends with loading false, and       *)
(* loading is false whenever no submission is in flight.                   *)
C5_LoadingResetOnCompletion ==
    [][ /\ \A i \in 1..Len(inflight), res \in Responses :
              settleFeature(i, res) => ~loading'
        /\ inflight' = <<>> => ~loading'
      ]_vars

(* C5 witness: after a success, a submission has ended in an exception     *)
(* (the body did not parse), nothing is in flight and loading is false.    *)
C5_Witness ==
    /\ error = StringOf("SyntaxError: Unexpected token")
    /\ Len(jobs) >= 1
    /\ inflight = <<>>
    /\ ~loading

(* C6: the completion of a submission answered 2xx with a body that parses *)
(* ends with response the parsed body, error null, one new job at the head *)
(* with the submitted title and the parsed body, both fields empty and     *)
(* loading false.                                                          *)
C6_SuccessOutcome ==
    [][ \A i \in 1..Len(inflight), res \in Responses :
          (settleFeature(i, res) /\ ~res.thrown /\ isOk(res.status)
              /\ ~parseThrows(res)) =>
              /\ response' = parsedBody(res)
              /\ error' = Null
              /\ Len(jobs') >= 1
              /\ jobs'[1].title = inflight[i]
              /\ jobs'[1].result = parsedBody(res)
              /\ Tail(jobs') = SubSeq(jobs, 1, Len(jobs') - 1)
              /\ title' = "" /\ description' = ""
              /\ ~loading'
      ]_vars

C8_UniqueIds ==
    \A i, j \in 1..Len(jobs) : i # j => jobs[i].id # jobs[j].id

(* C9: loading is true whenever a submission is in flight. *)
C9_LoadingWhileInFlight == inflight # <<>> => loading

(* C10: response and error are never both non-null. *)
C10_ResponseXorError == response = Null \/ error = Null

====
